---- MODULE Spec2Model ----
(***************************************************************************)
(* Model of src/main.py: a command-line tool that walks a directory tree,  *)
(* drops the files matched by the patterns of the closest .gitignore, and  *)
(* concatenates the files whose extension or name is a key of a fixed      *)
(* table into one output file, each under a comment-style header line.     *)
(*                                                                         *)
(* File names, paths, rule lines and patterns are sequences of             *)
(* one-character strings, so that suffixes, trimming and glob matching are *)
(* computed character by character as the code computes them.  The output  *)
(* file is the sequence of the arguments of outfile.write, in order; each  *)
(* argument is the sequence of the pieces its f-string puts one after the  *)
(* other, and Text gives the string they make.                             *)
(* Directories on the way from the filesystem root to the input directory  *)
(* are numbered by depth: 0 is the root "/", and the parent of depth d > 0 *)
(* is depth d - 1; the root is its own parent, as Path("/").parent is.     *)
(***************************************************************************)
EXTENDS Integers, Sequences, FiniteSets, TLC

VARIABLES
    pc,               \* position of the single control flow
    input_is_dir,     \* what Path(args.input_directory).is_dir() answers
    output_filename,  \* args.output_filename, a sequence of characters
    output_path,      \* the path main hands to concatenate_project (<<>> before)
    stdout,           \* the lines main has printed
    old_output,       \* the output file as it was before the run
    outfile,          \* the output file: [exists, chunks]
    input_depth,      \* depth of the resolved input directory
    gitignore_dirs,   \* depths of the directories that hold a .gitignore
    current,          \* find_gitignore's loop variable
    probed,           \* the directories find_gitignore has probed, in order
    gitignore_path,   \* find_gitignore's result: {} is None, {d} a match
    rules_lines,      \* the lines of the located rules file
    ignore_patterns,  \* the RuleSet of the run
    parse_count,      \* number of calls of parse_gitignore in this run
    match_count,      \* number of calls of is_ignored in this run
    tree,             \* the entries input_path.rglob("*") yields, in order
    idx,              \* index in tree of the next entry of the walk
    read_errors,      \* entry index -> error text, for the reads that failed
    crash_cause       \* the exception that escaped to the top level, if any

vars == <<pc, input_is_dir, output_filename, output_path, stdout, old_output,
          outfile, input_depth, gitignore_dirs, current, probed,
          gitignore_path, rules_lines, ignore_patterns, parse_count,
          match_count, tree, idx, read_errors, crash_cause>>

-----------------------------------------------------------------------------
(* Bounds of the model. *)

MaxDepth == 3

MaxLines == 2

MaxEntries == 2

MaxNameLen == 4

-----------------------------------------------------------------------------
(* Strings as sequences of characters. *)

RECURSIVE Str(_)
Str(s) == IF s = <<>> THEN "" ELSE s[1] \o Str(Tail(s))

Range(s) == {s[i] : i \in DOMAIN s}

SeqsUpTo(S, n) == UNION {[1..k -> S] : k \in 0..n}

\* str.lower(), on the letters the model's names are made of
LowerChar(c) ==
    CASE c = "A" -> "a" [] c = "B" -> "b" [] c = "C" -> "c" [] c = "D" -> "d"
      [] c = "E" -> "e" [] c = "F" -> "f" [] c = "G" -> "g" [] c = "H" -> "h"
      [] c = "I" -> "i" [] c = "J" -> "j" [] c = "K" -> "k" [] c = "L" -> "l"
      [] c = "M" -> "m" [] c = "N" -> "n" [] c = "O" -> "o" [] c = "P" -> "p"
      [] c = "Q" -> "q" [] c = "R" -> "r" [] c = "S" -> "s" [] c = "T" -> "t"
      [] c = "U" -> "u" [] c = "V" -> "v" [] c = "W" -> "w" [] c = "X" -> "x"
      [] c = "Y" -> "y" [] c = "Z" -> "z" [] OTHER -> c

Lower(s) == [i \in DOMAIN s |-> LowerChar(s[i])]

\* index of the last occurrence of c in s, 0 when there is none (str.rfind + 1)
RECURSIVE LastIndexOf(_, _)
LastIndexOf(s, c) ==
    IF s = <<>> THEN 0
    ELSE IF s[Len(s)] = c THEN Len(s)
    ELSE LastIndexOf(SubSeq(s, 1, Len(s) - 1), c)

\* PurePath.name: the last segment of a path
PathName(p) == SubSeq(p, LastIndexOf(p, "/") + 1, Len(p))

\* PurePath.suffix: the part of the name from its last dot on, unless that dot
\* is the first or the last character of the name
Suffix(name) ==
    LET i == LastIndexOf(name, ".")
    IN  IF 1 < i /\ i < Len(name) THEN SubSeq(name, i, Len(name)) ELSE <<>>

\* PurePath.stem
Stem(name) ==
    LET i == LastIndexOf(name, ".")
    IN  IF 1 < i /\ i < Len(name) THEN SubSeq(name, 1, i - 1) ELSE name

\* PurePath.with_suffix: the stem followed by the new suffix
WithSuffix(name, suffix) == Stem(name) \o suffix

IsSpace(c) == c \in {" ", "\t", "\n", "\r"}

RECURSIVE LStrip(_)
LStrip(s) == IF s # <<>> /\ IsSpace(s[1]) THEN LStrip(Tail(s)) ELSE s

RECURSIVE RStrip(_)
RStrip(s) ==
    IF s # <<>> /\ IsSpace(s[Len(s)]) THEN RStrip(SubSeq(s, 1, Len(s) - 1)) ELSE s

\* str.strip()
Strip(s) == RStrip(LStrip(s))

\* fnmatch.fnmatch on POSIX (normcase is the identity): "*" matches any run of
\* characters, "/" included, "?" any one character, anything else itself.  The
\* patterns of the model hold no "[", so no bracket class arises.
RECURSIVE fnmatch(_, _)
fnmatch(name, pat) ==
    IF pat = <<>> THEN name = <<>>
    ELSE IF pat[1] = "*"
         THEN \/ fnmatch(name, Tail(pat))
              \/ name # <<>> /\ fnmatch(Tail(name), pat)
    ELSE IF pat[1] = "?"
         THEN name # <<>> /\ fnmatch(Tail(name), Tail(pat))
    ELSE name # <<>> /\ name[1] = pat[1] /\ fnmatch(Tail(name), Tail(pat))

-----------------------------------------------------------------------------
(* The extension table of concatenate_project. *)

comment_syntax ==
    ".py" :> "#" @@ ".r" :> "#" @@ ".jl" :> "#" @@
    ".sh" :> "#" @@ ".bash" :> "#" @@ ".ps1" :> "#" @@
    ".bat" :> "REM" @@ ".pl" :> "#" @@ ".awk" :> "#" @@
    ".html" :> "-->" @@ ".htm" :> "-->" @@ ".xml" :> "-->" @@
    ".xhtml" :> "-->" @@ ".js" :> "//" @@ ".jsx" :> "//" @@
    ".ts" :> "//" @@ ".tsx" :> "//" @@ ".css" :> "*/" @@
    ".scss" :> "//" @@ ".less" :> "//" @@ ".java" :> "//" @@
    ".c" :> "//" @@ ".h" :> "//" @@ ".cpp" :> "//" @@
    ".cc" :> "//" @@ ".cxx" :> "//" @@ ".c++" :> "//" @@
    ".cs" :> "//" @@ ".go" :> "//" @@ ".swift" :> "//" @@
    ".kt" :> "//" @@ ".kts" :> "//" @@ ".dart" :> "//" @@
    ".php" :> "//" @@ ".rb" :> "#" @@ ".lua" :> "--" @@
    ".scala" :> "//" @@ ".groovy" :> "//" @@ ".vbs" :> "'" @@
    ".fs" :> "//" @@ ".fsx" :> "//" @@ ".hs" :> "--" @@
    ".ml" :> "(* *)" @@ ".mli" :> "(* *)" @@ ".clj" :> ";" @@
    ".cljs" :> ";" @@ ".lisp" :> ";" @@ ".lsp" :> ";" @@
    ".scm" :> ";" @@ ".rkt" :> ";" @@ ".erl" :> "%" @@
    ".ex" :> "#" @@ ".exs" :> "#" @@ ".json" :> "" @@
    ".yaml" :> "#" @@ ".yml" :> "#" @@ ".ini" :> ";" @@
    ".toml" :> "#" @@ ".cfg" :> "#" @@ ".conf" :> "#" @@
    ".properties" :> "#" @@ ".sql" :> "--" @@ ".md" :> "-->" @@
    ".markdown" :> "-->" @@ ".rst" :> ".." @@ ".tex" :> "%" @@
    ".latex" :> "%" @@ ".make" :> "#" @@ ".mk" :> "#" @@
    "Makefile" :> "#" @@ ".dockerfile" :> "#" @@ "Dockerfile" :> "#" @@
    ".env" :> "#" @@ ".gitattributes" :> "#" @@ ".gitignore" :> "#" @@
    ".editorconfig" :> "#"

\* the extensions whose header takes end_comment as its closing token
MarkupSubset == {".html", ".css", ".xml", ".md"}

\* end_comment, which the code sets to "" and never changes
end_comment == ""

\* comment_syntax.get(ext, "#")
start_comment(ext, name) ==
    IF ext \in DOMAIN comment_syntax THEN comment_syntax[ext] ELSE "#"

-----------------------------------------------------------------------------
(* The filesystem around the input directory. *)

Parent(d) == IF d = 0 THEN 0 ELSE d - 1

RECURSIVE DirPath(_)
DirPath(d) ==
    IF d = 0 THEN "/" ELSE IF d = 1 THEN "/d" ELSE DirPath(d - 1) \o "/d"

\* input_path / rel, as text
FilePath(rel) ==
    IF input_depth = 0 THEN "/" \o Str(rel)
    ELSE DirPath(input_depth) \o "/" \o Str(rel)

\* the loop condition of find_gitignore
AtRoot(d) == d = Parent(d)

-----------------------------------------------------------------------------
(* parse_gitignore *)

\* KeepLine with the "#" test made on the line before it is stripped
KeepRawLine(line) ==
    IF line # <<>> /\ line[1] # "#" /\ Strip(line) # <<>>
    THEN <<Strip(line)>> ELSE <<>>

\* one iteration of the loop: the stripped line, kept when it is non-empty and
\* does not start with "#"
KeepLine(line) ==
    LET l == Strip(line)
    IN  IF l # <<>> /\ l[1] # "#" THEN <<l>> ELSE <<>>

RECURSIVE parse_loop(_, _)
parse_loop(lines, patterns) ==
    IF lines = <<>> THEN patterns
    ELSE parse_loop(Tail(lines), patterns \o KeepLine(lines[1]))

parse_gitignore(lines) == parse_loop(lines, <<>>)

-----------------------------------------------------------------------------
(* is_ignored *)

\* is_ignored without the test of the bare name
RECURSIVE is_ignored_path_only(_, _)
is_ignored_path_only(rel, patterns) ==
    IF patterns = <<>> THEN FALSE
    ELSE IF fnmatch(rel, patterns[1]) THEN TRUE
    ELSE is_ignored_path_only(rel, Tail(patterns))

RECURSIVE is_ignored(_, _)
is_ignored(rel, patterns) ==
    IF patterns = <<>> THEN FALSE
    ELSE IF fnmatch(rel, patterns[1]) \/ fnmatch(PathName(rel), patterns[1])
         THEN TRUE
    ELSE is_ignored(rel, Tail(patterns))

-----------------------------------------------------------------------------
(* The per-file steps of concatenate_project. *)

\* file_path.suffix.lower()
Ext(rel) == Str(Lower(Suffix(PathName(rel))))

Name(rel) == Str(PathName(rel))

\* the negation of the test that makes the loop skip a file
InTable(rel) ==
    Ext(rel) \in DOMAIN comment_syntax \/ Name(rel) \in DOMAIN comment_syntax

\* the string a written chunk is: its pieces, one after the other
Text(chunk) == Str(chunk)

\* the argument of the write of the header line
HeaderLine(rel) ==
    LET sc == start_comment(Ext(rel), Name(rel))
    IN  IF Ext(rel) \in MarkupSubset
        THEN <<sc, " File: ", FilePath(rel), " ", end_comment, "\n">>
        ELSE <<sc, " File: ", FilePath(rel), " ", sc, "\n">>

\* the argument of the write of the except branch
ErrorLine(rel, e) ==
    <<start_comment(Ext(rel), Name(rel)), " Could not read file: ",
      FilePath(rel), " - Error: ", e, " ", end_comment, "\n\n">>

\* the argument of the write of the content
Content(e) == <<e.content>>

Separator == <<"\n\n">>

-----------------------------------------------------------------------------
(* The inputs of a run. *)

TxtSuffix == <<".", "t", "x", "t">>

NoFile == [exists |-> FALSE, chunks |-> <<>>]

OldFile == [exists |-> TRUE, chunks |-> <<<<"old">>>>]

File(rel, content) == [rel |-> rel, is_file |-> TRUE, content |-> content]

Dir(rel) == [rel |-> rel, is_file |-> FALSE, content |-> ""]

\* the entries a tree of the model is made of
EntryUniverse ==
    { File(<<"a", ".", "p", "y">>, "print(1)"),
      File(<<"a", ".", "p", "y", "c">>, "\\0"),
      File(<<"A", ".", "P", "Y">>, "print(2)"),
      File(<<"a", "p", "p", ".", "l", "o", "g">>, "log"),
      File(<<"i", "n", "d", "e", "x", ".", "h", "t", "m", "l">>, "<p>hi</p>"),
      File(<<"n", ".", "h", "t", "m">>, "<b>n</b>"),
      File(<<"M", "a", "k", "e", "f", "i", "l", "e">>, "all:"),
      File(<<".", "j", "s">>, "let x"),
      Dir(<<"s">>),
      File(<<"s", "/", "a", ".", "p", "y">>, "print(3)") }

ParentDir(rel) == SubSeq(rel, 1, LastIndexOf(rel, "/") - 1)

\* rglob yields every path once, and a directory before what it holds
WellFormedTree(t) ==
    /\ \A i, j \in DOMAIN t : i # j => t[i].rel # t[j].rel
    /\ \A i \in DOMAIN t :
          LastIndexOf(t[i].rel, "/") > 0 =>
              \E j \in 1..(i - 1) : t[j] = Dir(ParentDir(t[i].rel))

Trees == {t \in SeqsUpTo(EntryUniverse, MaxEntries) : WellFormedTree(t)}

DefaultTree == <<File(<<"a", ".", "p", "y">>, "print(1)")>>

RECURSIVE RulesText(_)
RulesText(lines) ==
    IF lines = <<>> THEN "" ELSE Str(lines[1]) \o "\n" \o RulesText(Tail(lines))

\* a .gitignore in the input directory is itself an entry of the walk
GitignoreEntry(lines) ==
    File(<<".", "g", "i", "t", "i", "g", "n", "o", "r", "e">>, RulesText(lines))

DefaultName == <<"o", "u", "t", ".", "t", "x", "t">>

NameChars == {"o", ".", "t", "x"}

OutputNames ==
    (SeqsUpTo(NameChars, MaxNameLen) \ {<<>>, <<".">>})
        \cup { DefaultName, <<"o", "u", "t">>, <<"o", "u", "t", ".", "m", "d">>,
               <<"o", ".", "T", "X", "T">>, <<"a", ".", "b", ".", "t", "x", "t">> }

\* the lines a rules file of the model is made of
RuleLines ==
    { <<>>, <<" ">>, <<"a">>, <<" ", "a", " ">>, <<"\t", "a">>, <<"#">>,
      <<" ", "#">>, <<"#", "a">>, <<"a", "#">>, <<"a", " ", "a">> }

RuleFiles == SeqsUpTo(RuleLines, MaxLines)

\* rules files of the runs that vary the tree
RunRules ==
    { <<<<"*", ".", "l", "o", "g">>>>,
      <<<<"#", "c">>, <<" ", "a", ".", "p", "y", " ">>>>,
      <<<<"s", "/", "*">>, <<>>, <<"?", ".", "h", "t", "m">>>>,
      <<<<"*", ".", "p", "y">>, <<"M", "*">>>> }

\* the text of the exceptions a read of a file raises
ReadErrors == {"[Errno 13] Permission denied", "[Errno 5] Input/output error"}

-----------------------------------------------------------------------------
(* The state before main runs.  The inputs are drawn along four families:   *)
(* the command line, the directories above the input directory, the text   *)
(* of the rules file, and the tree below the input directory.              *)

InitArgs ==
    /\ input_is_dir \in BOOLEAN
    /\ output_filename \in OutputNames
    /\ old_output \in {NoFile, OldFile}
    /\ input_depth = 1
    /\ gitignore_dirs = {}
    /\ rules_lines = <<>>
    /\ tree = DefaultTree

InitAncestors ==
    /\ input_is_dir = TRUE
    /\ output_filename = DefaultName
    /\ old_output = NoFile
    /\ input_depth \in 0..MaxDepth
    /\ gitignore_dirs \in SUBSET (0..input_depth)
    /\ rules_lines = <<<<"*", ".", "l", "o", "g">>>>
    /\ tree = IF input_depth \in gitignore_dirs
              THEN <<GitignoreEntry(rules_lines)>> \o DefaultTree
              ELSE DefaultTree

InitRules ==
    /\ input_is_dir = TRUE
    /\ output_filename = DefaultName
    /\ old_output = NoFile
    /\ input_depth = 2
    /\ gitignore_dirs = {1}
    /\ rules_lines \in RuleFiles
    /\ tree = DefaultTree

InitTree ==
    /\ input_is_dir = TRUE
    /\ output_filename = DefaultName
    /\ old_output = OldFile
    /\ input_depth = 2
    /\ \/ gitignore_dirs = {} /\ rules_lines = <<>>
       \/ gitignore_dirs = {1} /\ rules_lines \in RunRules
    /\ tree \in Trees

Init ==
    /\ pc = "main"
    /\ InitArgs \/ InitAncestors \/ InitRules \/ InitTree
    /\ output_path = <<>>
    /\ stdout = <<>>
    /\ outfile = old_output
    /\ current = input_depth
    /\ probed = <<>>
    /\ gitignore_path = {}
    /\ ignore_patterns = <<>>
    /\ parse_count = 0
    /\ match_count = 0
    /\ idx = 1
    /\ read_errors = <<>>
    /\ crash_cause = "none"

-----------------------------------------------------------------------------
(* main *)

\* InputIsDir without the test
InputIsDirAlways == TRUE

\* input_path.is_dir()
InputIsDir == input_is_dir

\* the input path is missing or no directory: print the error and return
MainBadInput ==
    /\ pc = "main"
    /\ ~InputIsDir
    /\ stdout' = Append(stdout, "Error: Input directory not found.")
    /\ pc' = "done"
    /\ UNCHANGED <<input_is_dir, output_filename, output_path, old_output,
                   outfile, input_depth, gitignore_dirs, current, probed,
                   gitignore_path, rules_lines, ignore_patterns, parse_count,
                   match_count, tree, idx, read_errors, crash_cause>>

\* the suffix of the output name is not ".txt": warn, replace the suffix, and
\* call concatenate_project
MainReplaceSuffix ==
    /\ pc = "main"
    /\ InputIsDir
    /\ Suffix(PathName(output_filename)) # TxtSuffix
    /\ stdout' = Append(stdout,
           "Warning: Output filename does not end with '.txt'. Appending '.txt'.")
    /\ output_path' = WithSuffix(output_filename, TxtSuffix)
    /\ current' = input_depth
    /\ pc' = "find"
    /\ UNCHANGED <<input_is_dir, output_filename, old_output, outfile,
                   input_depth, gitignore_dirs, probed, gitignore_path,
                   rules_lines, ignore_patterns, parse_count, match_count,
                   tree, idx, read_errors, crash_cause>>

\* the suffix is ".txt": call concatenate_project with the name as given
MainKeepName ==
    /\ pc = "main"
    /\ InputIsDir
    /\ Suffix(PathName(output_filename)) = TxtSuffix
    /\ output_path' = output_filename
    /\ current' = input_depth
    /\ pc' = "find"
    /\ UNCHANGED <<input_is_dir, output_filename, stdout, old_output, outfile,
                   input_depth, gitignore_dirs, probed, gitignore_path,
                   rules_lines, ignore_patterns, parse_count, match_count,
                   tree, idx, read_errors, crash_cause>>

-----------------------------------------------------------------------------
(* find_gitignore, called from concatenate_project *)

\* the directory holds a .gitignore: return it
FindHit ==
    /\ pc = "find"
    /\ ~AtRoot(current)
    /\ current \in gitignore_dirs
    /\ probed' = Append(probed, current)
    /\ gitignore_path' = {current}
    /\ pc' = "parse"
    /\ UNCHANGED <<input_is_dir, output_filename, output_path, stdout,
                   old_output, outfile, input_depth, gitignore_dirs, current,
                   rules_lines, ignore_patterns, parse_count, match_count,
                   tree, idx, read_errors, crash_cause>>

\* it does not: go on with the parent
FindUp ==
    /\ pc = "find"
    /\ ~AtRoot(current)
    /\ current \notin gitignore_dirs
    /\ probed' = Append(probed, current)
    /\ current' = Parent(current)
    /\ UNCHANGED <<pc, input_is_dir, output_filename, output_path, stdout,
                   old_output, outfile, input_depth, gitignore_dirs,
                   gitignore_path, rules_lines, ignore_patterns, parse_count,
                   match_count, tree, idx, read_errors, crash_cause>>

\* the loop ends at the root: return None, and the RuleSet is empty
FindNone ==
    /\ pc = "find"
    /\ AtRoot(current)
    /\ gitignore_path' = {}
    /\ ignore_patterns' = <<>>
    /\ pc' = "open"
    /\ UNCHANGED <<input_is_dir, output_filename, output_path, stdout,
                   old_output, outfile, input_depth, gitignore_dirs, current,
                   probed, rules_lines, parse_count, match_count, tree, idx,
                   read_errors, crash_cause>>

-----------------------------------------------------------------------------
(* parse_gitignore, called from concatenate_project *)

ParseRules ==
    /\ pc = "parse"
    /\ parse_count' = parse_count + 1
    /\ ignore_patterns' = parse_gitignore(rules_lines)
    /\ pc' = "open"
    /\ UNCHANGED <<input_is_dir, output_filename, output_path, stdout,
                   old_output, outfile, input_depth, gitignore_dirs, current,
                   probed, gitignore_path, rules_lines, match_count, tree,
                   idx, read_errors, crash_cause>>

\* opening or decoding the rules file raises; nothing catches the exception
ParseRaise ==
    /\ pc = "parse"
    /\ parse_count' = parse_count + 1
    /\ \E e \in {"OSError", "UnicodeDecodeError"} :
          crash_cause' = "rules file: " \o e
    /\ pc' = "crashed"
    /\ UNCHANGED <<input_is_dir, output_filename, output_path, stdout,
                   old_output, outfile, input_depth, gitignore_dirs, current,
                   probed, gitignore_path, rules_lines, ignore_patterns,
                   match_count, tree, idx, read_errors>>

-----------------------------------------------------------------------------
(* concatenate_project: the output file and the walk *)

\* open("w") creates or truncates the output file
OpenOutput ==
    /\ pc = "open"
    /\ outfile' = [exists |-> TRUE, chunks |-> <<>>]
    /\ idx' = 1
    /\ pc' = "walk"
    /\ UNCHANGED <<input_is_dir, output_filename, output_path, stdout,
                   old_output, input_depth, gitignore_dirs, current, probed,
                   gitignore_path, rules_lines, ignore_patterns, parse_count,
                   match_count, tree, read_errors, crash_cause>>

\* open("w") raises; nothing catches the exception
OpenRaise ==
    /\ pc = "open"
    /\ crash_cause' = "output file: OSError"
    /\ pc' = "crashed"
    /\ UNCHANGED <<input_is_dir, output_filename, output_path, stdout,
                   old_output, outfile, input_depth, gitignore_dirs, current,
                   probed, gitignore_path, rules_lines, ignore_patterns,
                   parse_count, match_count, tree, idx, read_errors>>

\* Write on a file reopened for each write
WriteFromStart(chunks) == [outfile EXCEPT !.chunks = chunks]

\* outfile.write: the chunks go to the end of the open file
Write(chunks) == [outfile EXCEPT !.chunks = outfile.chunks \o chunks]

\* the entry is no regular file
WalkSkipNotFile ==
    /\ pc = "walk"
    /\ idx <= Len(tree)
    /\ ~tree[idx].is_file
    /\ idx' = idx + 1
    /\ UNCHANGED <<pc, input_is_dir, output_filename, output_path, stdout,
                   old_output, outfile, input_depth, gitignore_dirs, current,
                   probed, gitignore_path, rules_lines, ignore_patterns,
                   parse_count, match_count, tree, read_errors, crash_cause>>

\* a pattern matches the file
WalkSkipIgnored ==
    /\ pc = "walk"
    /\ idx <= Len(tree)
    /\ tree[idx].is_file
    /\ is_ignored(tree[idx].rel, ignore_patterns)
    /\ match_count' = match_count + 1
    /\ idx' = idx + 1
    /\ UNCHANGED <<pc, input_is_dir, output_filename, output_path, stdout,
                   old_output, outfile, input_depth, gitignore_dirs, current,
                   probed, gitignore_path, rules_lines, ignore_patterns,
                   parse_count, tree, read_errors, crash_cause>>

\* neither the extension nor the name of the file is a key of the table
WalkSkipNotInTable ==
    /\ pc = "walk"
    /\ idx <= Len(tree)
    /\ tree[idx].is_file
    /\ ~is_ignored(tree[idx].rel, ignore_patterns)
    /\ ~InTable(tree[idx].rel)
    /\ match_count' = match_count + 1
    /\ idx' = idx + 1
    /\ UNCHANGED <<pc, input_is_dir, output_filename, output_path, stdout,
                   old_output, outfile, input_depth, gitignore_dirs, current,
                   probed, gitignore_path, rules_lines, ignore_patterns,
                   parse_count, tree, read_errors, crash_cause>>

\* the header, then the content read in one piece, then the separator
WalkWriteBlock ==
    /\ pc = "walk"
    /\ idx <= Len(tree)
    /\ tree[idx].is_file
    /\ ~is_ignored(tree[idx].rel, ignore_patterns)
    /\ InTable(tree[idx].rel)
    /\ outfile' = Write(<<HeaderLine(tree[idx].rel), Content(tree[idx]),
                          Separator>>)
    /\ match_count' = match_count + 1
    /\ idx' = idx + 1
    /\ UNCHANGED <<pc, input_is_dir, output_filename, output_path, stdout,
                   old_output, input_depth, gitignore_dirs, current, probed,
                   gitignore_path, rules_lines, ignore_patterns, parse_count,
                   tree, read_errors, crash_cause>>

\* WalkReadError without the except branch: the walk ends at the failed read
WalkReadErrorAborts ==
    /\ pc = "walk"
    /\ idx <= Len(tree)
    /\ tree[idx].is_file
    /\ ~is_ignored(tree[idx].rel, ignore_patterns)
    /\ InTable(tree[idx].rel)
    /\ \E e \in ReadErrors :
          /\ outfile' = Write(<<HeaderLine(tree[idx].rel)>>)
          /\ read_errors' = read_errors @@ (idx :> e)
    /\ match_count' = match_count + 1
    /\ pc' = "done"
    /\ UNCHANGED <<input_is_dir, output_filename, output_path, stdout,
                   old_output, input_depth, gitignore_dirs, current, probed,
                   gitignore_path, rules_lines, ignore_patterns, parse_count,
                   tree, idx, crash_cause>>

\* the header, then read_text raises: the except branch writes its line and
\* the loop goes on
WalkReadError ==
    /\ pc = "walk"
    /\ idx <= Len(tree)
    /\ tree[idx].is_file
    /\ ~is_ignored(tree[idx].rel, ignore_patterns)
    /\ InTable(tree[idx].rel)
    /\ \E e \in ReadErrors :
          /\ outfile' = Write(<<HeaderLine(tree[idx].rel),
                                ErrorLine(tree[idx].rel, e)>>)
          /\ read_errors' = read_errors @@ (idx :> e)
    /\ match_count' = match_count + 1
    /\ idx' = idx + 1
    /\ UNCHANGED <<pc, input_is_dir, output_filename, output_path, stdout,
                   old_output, input_depth, gitignore_dirs, current, probed,
                   gitignore_path, rules_lines, ignore_patterns, parse_count,
                   tree, crash_cause>>

\* the walk is over: the file is closed, concatenate_project returns and main
\* prints its last line
WalkEnd ==
    /\ pc = "walk"
    /\ idx > Len(tree)
    /\ stdout' = Append(stdout, "All files concatenated.")
    /\ pc' = "done"
    /\ UNCHANGED <<input_is_dir, output_filename, output_path, old_output,
                   outfile, input_depth, gitignore_dirs, current, probed,
                   gitignore_path, rules_lines, ignore_patterns, parse_count,
                   match_count, tree, idx, read_errors, crash_cause>>

-----------------------------------------------------------------------------

Next ==
    \/ MainBadInput
    \/ MainReplaceSuffix
    \/ MainKeepName
    \/ FindHit
    \/ FindUp
    \/ FindNone
    \/ ParseRules
    \/ ParseRaise
    \/ OpenOutput
    \/ OpenRaise
    \/ WalkSkipNotFile
    \/ WalkSkipIgnored
    \/ WalkSkipNotInTable
    \/ WalkWriteBlock
    \/ WalkReadError
    \/ WalkEnd

Spec == Init /\ [][Next]_vars

-----------------------------------------------------------------------------
(* What the properties below speak of. *)

\* the entries the walk has dealt with
Processed == IF pc \in {"walk", "done"} THEN 1..(idx - 1) ELSE {}

Chunks == outfile.chunks

\* concatenate_project ran to its end
Finished == pc = "done" /\ input_is_dir

\* chunk is a header line that names the file at rel, whatever its markers
IsHeaderFor(chunk, rel) ==
    /\ Len(chunk) = 6
    /\ chunk[2] = " File: "
    /\ chunk[3] = FilePath(rel)
    /\ chunk[4] = " "
    /\ chunk[6] = "\n"

\* chunk is a comment line that names the file at rel and carries the error e
IsFailureLineFor(chunk, rel, e) ==
    /\ Len(chunk) = 8
    /\ chunk[2] = " Could not read file: "
    /\ chunk[3] = FilePath(rel)
    /\ chunk[4] = " - Error: "
    /\ chunk[5] = e
    /\ chunk[8] = "\n\n"

HeaderPositions(rel) == {k \in DOMAIN Chunks : IsHeaderFor(Chunks[k], rel)}

HasBlock(rel) == HeaderPositions(rel) # {}

\* some pattern of the RuleSet glob-matches the relative path or the bare name
MatchesSomePattern(rel) ==
    \E p \in Range(ignore_patterns) :
        fnmatch(rel, p) \/ fnmatch(PathName(rel), p)

\* the lowercased extension or the exact name is a key of the table
IsTableKey(rel) ==
    LET name == PathName(rel)
    IN  {Str(Lower(Suffix(name))), Str(name)} \cap DOMAIN comment_syntax # {}

Eligible(e) == e.is_file /\ ~MatchesSomePattern(e.rel) /\ IsTableKey(e.rel)

\* header, content, separator, one after the other
ContentBlockAt(k, e) ==
    /\ k + 2 <= Len(Chunks)
    /\ IsHeaderFor(Chunks[k], e.rel)
    /\ Text(Chunks[k + 1]) = e.content
    /\ Text(Chunks[k + 2]) = "\n\n"

\* header, then the line that reports the failed read
FailureBlockAt(k, i) ==
    /\ k + 1 <= Len(Chunks)
    /\ IsHeaderFor(Chunks[k], tree[i].rel)
    /\ i \in DOMAIN read_errors
    /\ IsFailureLineFor(Chunks[k + 1], tree[i].rel, read_errors[i])

-----------------------------------------------------------------------------

\* C1: for every entry the walk has yielded, a block for the entry is in the
\* output if and only if the entry is a regular file, no pattern of the RuleSet
\* glob-matches its relative path or its bare name, and its lowercased
\* extension or its exact name is a key of the table.
C1_IncludedIff ==
    \A i \in Processed :
        HasBlock(tree[i].rel) <=>
            /\ tree[i].is_file
            /\ ~MatchesSomePattern(tree[i].rel)
            /\ IsTableKey(tree[i].rel)

\* a finished run that dropped a file of a known extension for a pattern that
\* matches its bare name only, dropped a file not in the table, or kept one
C1_Witness ==
    /\ Finished
    /\ \E i \in Processed :
          /\ tree[i].is_file
          /\ IsTableKey(tree[i].rel)
          /\ MatchesSomePattern(tree[i].rel)
          /\ ~is_ignored_path_only(tree[i].rel, ignore_patterns)
          /\ ~HasBlock(tree[i].rel)

\* C2 as stated: after a finished run every eligible file has exactly one
\* header in the output, immediately followed by its content and by the
\* separator.
C2_ContentBlockOnce ==
    Finished =>
        \A i \in DOMAIN tree :
            Eligible(tree[i]) =>
                /\ Cardinality(HeaderPositions(tree[i].rel)) = 1
                /\ \A k \in HeaderPositions(tree[i].rel) :
                      ContentBlockAt(k, tree[i])

\* C2 as amended: after a finished run every eligible file has exactly one
\* header in the output, immediately followed either by its content and the
\* separator or, when reading the file failed, by the line that reports the
\* failure; the next chunk, if any, is the header of another file.
C2_BlockOnce ==
    Finished =>
        \A i \in DOMAIN tree :
            Eligible(tree[i]) =>
                /\ Cardinality(HeaderPositions(tree[i].rel)) = 1
                /\ \A k \in HeaderPositions(tree[i].rel) :
                      \/ /\ i \notin DOMAIN read_errors
                         /\ ContentBlockAt(k, tree[i])
                         /\ k + 3 <= Len(Chunks) =>
                               \E j \in DOMAIN tree \ {i} :
                                   IsHeaderFor(Chunks[k + 3], tree[j].rel)
                      \/ /\ FailureBlockAt(k, i)
                         /\ k + 2 <= Len(Chunks) =>
                               \E j \in DOMAIN tree \ {i} :
                                   IsHeaderFor(Chunks[k + 2], tree[j].rel)

\* a finished run with two eligible files, the first read, the second not
C2_Witness ==
    /\ Finished
    /\ \E i, j \in DOMAIN tree :
          /\ i < j
          /\ Eligible(tree[i]) /\ Eligible(tree[j])
          /\ i \notin DOMAIN read_errors
          /\ j \in DOMAIN read_errors
          /\ Len(Chunks) = 5

\* C3: the header of an included file with the extension .html is
\* "<!-- File: <path> -->", an opening marker and a distinct closing marker,
\* and the content of the file follows it.
C3_MarkupHeader ==
    \A i \in Processed :
        (HasBlock(tree[i].rel) /\ Ext(tree[i].rel) = ".html") =>
            \E k \in DOMAIN Chunks :
                /\ Text(Chunks[k])
                      = "<!-- File: " \o FilePath(tree[i].rel) \o " -->\n"
                /\ k < Len(Chunks)
                /\ Text(Chunks[k + 1]) = tree[i].content

\* the marker C4 names: the table's for the extension, else the table's for
\* the exact name
ClaimedMarker(rel) ==
    IF Ext(rel) \in DOMAIN comment_syntax THEN comment_syntax[Ext(rel)]
    ELSE comment_syntax[Name(rel)]

\* C4: the header of an included file whose lowercased extension is outside
\* the markup subset is "<m> File: <path> <m>" and a newline, m being the
\* marker the table gives for the extension or, when the extension is no key,
\* the marker the table gives for the exact name.
C4_RepeatedMarkerHeader ==
    \A i \in Processed :
        (HasBlock(tree[i].rel) /\ Ext(tree[i].rel) \notin MarkupSubset) =>
            \A k \in HeaderPositions(tree[i].rel) :
                Text(Chunks[k]) = ClaimedMarker(tree[i].rel) \o " File: "
                                     \o FilePath(tree[i].rel) \o " "
                                     \o ClaimedMarker(tree[i].rel) \o "\n"

\* C5: a failed read leaves, right after the header of the file, a comment
\* line that names the file and carries the error text; it never ends the
\* run, the walk goes on to its last entry, and every eligible file after the
\* failed one has its block further down the output.
C5_ReadFailureContained ==
    \A i \in DOMAIN read_errors :
        /\ pc \in {"walk", "done"}
        /\ pc = "done" => idx = Len(tree) + 1
        /\ \E k \in DOMAIN Chunks :
              /\ FailureBlockAt(k, i)
              /\ \A j \in Processed :
                    (j > i /\ Eligible(tree[j])) =>
                        \E n \in HeaderPositions(tree[j].rel) : n > k + 1

\* a finished run in which a read failed and a later file was read
C5_Witness ==
    /\ Finished
    /\ \E i \in DOMAIN read_errors :
          \E j \in Processed :
              /\ j > i
              /\ j \notin DOMAIN read_errors
              /\ \E n \in HeaderPositions(tree[j].rel) :
                    ContentBlockAt(n, tree[j])

\* the closest of the input directory and its ancestors, the root included,
\* that holds a rules file
Closest ==
    LET having == gitignore_dirs \cap (0..input_depth)
    IN  IF having = {} THEN {}
        ELSE {CHOOSE d \in having : \A x \in having : x <= d}

\* C6: once find_gitignore has returned, its result is the rules file of the
\* closest directory, among the start and all its ancestors up to and
\* including the root, that holds one, and "not found" only when none does.
C6_ClosestUpToRoot ==
    (pc \in {"parse", "open", "walk", "crashed"} \/ Finished) =>
        gitignore_path = Closest

EndsWith(s, t) ==
    Len(s) >= Len(t) /\ SubSeq(s, Len(s) - Len(t) + 1, Len(s)) = t

Warned ==
    \E n \in DOMAIN stdout :
        stdout[n] = "Warning: Output filename does not end with '.txt'. Appending '.txt'."

\* C7: the path main hands to concatenate_project is the output name followed
\* by ".txt", with a warning, when the name does not end in ".txt", and the
\* name itself, with no warning, when it does.
C7_TxtAppended ==
    pc \notin {"main"} /\ input_is_dir =>
        IF EndsWith(output_filename, TxtSuffix)
        THEN output_path = output_filename /\ ~Warned
        ELSE output_path = output_filename \o TxtSuffix /\ Warned

\* C8: the only exception that ends a run is a failure to open the output
\* file; a failure to read or decode the rules file does not.
C8_OnlyOpenErrorsEscape ==
    pc = "crashed" => crash_cause = "output file: OSError"

\* C9: when the input path is no directory, main prints the error and
\* returns: concatenate_project is never called and the output file is as it
\* was, absent or with its previous content.
C9_BadInputNoOutput ==
    ~input_is_dir =>
        /\ pc \in {"main", "done"}
        /\ output_path = <<>>
        /\ outfile = old_output
        /\ parse_count = 0 /\ match_count = 0 /\ probed = <<>>
        /\ pc = "done" => stdout = <<"Error: Input directory not found.">>

\* main has returned on a bad input path, and the output file of an earlier
\* run is still there
C9_Witness ==
    /\ ~input_is_dir
    /\ pc = "done"
    /\ old_output = OldFile
    /\ outfile = OldFile

\* the trimmed lines that are non-empty and do not begin with "#", in order
ExpectedRuleSet(lines) ==
    SelectSeq([n \in DOMAIN lines |-> Strip(lines[n])],
              LAMBDA l : l # <<>> /\ l[1] # "#")

\* C10: the RuleSet is the sequence of the trimmed lines of the rules file
\* that are non-empty and do not begin with "#", in file order, duplicates
\* kept; the file is parsed at most once in a run, and no file is matched
\* before that.
C10_RuleSetParsedOnce ==
    /\ parse_count <= 1
    /\ pc \in {"main", "find", "parse"} => match_count = 0
    /\ (pc \in {"open", "walk", "done"} /\ gitignore_path # {}) =>
          /\ parse_count = 1
          /\ ignore_patterns = ExpectedRuleSet(rules_lines)

\* a finished run whose rules file held the same pattern twice, once with
\* blanks to trim, and whose RuleSet kept both
C10_Witness ==
    /\ Finished
    /\ match_count > 0
    /\ parse_count = 1
    /\ \E n \in DOMAIN rules_lines : Strip(rules_lines[n]) # rules_lines[n]
    /\ Len(ignore_patterns) = 2
    /\ ignore_patterns[1] = ignore_patterns[2]

====
